---- MODULE Spec2Model ----
(***************************************************************************)
(* Debug-session line mapping of the RISC-GoV IDE (src/theme.go).          *)
(*                                                                         *)
(* The editor text is a string; a string is a sequence of symbols.  The    *)
(* symbols are the characters the code looks at (" ", "\n", "#", "/"), an  *)
(* opaque character "x", and whole mnemonics ("ecall", "la", ...), which   *)
(* the code only ever compares as complete whitespace-delimited fields.    *)
(***************************************************************************)
EXTENDS Integers, Sequences, FiniteSets, TLC

\* ---------------------------------------------------------------- bounds
MaxLines == 2      \* lines of the editor text
MaxPCIdx == 4      \* the engine's PC ranges over 0 .. 4 * MaxPCIdx

\* ------------------------------------------------------- Go string library
NL == "\n"
SP == " "

\* unicode.IsSpace on the symbols of the model
IsSpace(c) == c \in {SP, "\t", "\r", NL}

RECURSIVE SplitFrom(_, _, _)
SplitFrom(s, cur, acc) ==
    IF s = <<>> THEN Append(acc, cur)
    ELSE IF Head(s) = NL THEN SplitFrom(Tail(s), <<>>, Append(acc, cur))
    ELSE SplitFrom(Tail(s), Append(cur, Head(s)), acc)

\* strings.Split(s, "\n"): never empty, Split("") = [""]
Split(s) == SplitFrom(s, <<>>, <<>>)

RECURSIVE TrimLeft(_)
TrimLeft(s) == IF s # <<>> /\ IsSpace(Head(s)) THEN TrimLeft(Tail(s)) ELSE s

RECURSIVE TrimRight(_)
TrimRight(s) ==
    IF s # <<>> /\ IsSpace(s[Len(s)]) THEN TrimRight(SubSeq(s, 1, Len(s) - 1)) ELSE s

\* strings.TrimSpace
TrimSpace(s) == TrimRight(TrimLeft(s))

\* strings.HasPrefix
HasPrefix(s, p) == Len(s) >= Len(p) /\ SubSeq(s, 1, Len(p)) = p

RECURSIVE FieldsFrom(_, _, _)
FieldsFrom(s, cur, acc) ==
    IF s = <<>> THEN (IF cur = <<>> THEN acc ELSE Append(acc, cur))
    ELSE IF IsSpace(Head(s))
         THEN FieldsFrom(Tail(s), <<>>, IF cur = <<>> THEN acc ELSE Append(acc, cur))
    ELSE FieldsFrom(Tail(s), Append(cur, Head(s)), acc)

\* strings.Fields: the maximal runs of non-space symbols
Fields(s) == FieldsFrom(s, <<>>, <<>>)

\* ------------------------------------------- assembler instruction tables
\* assembler.InstructionToOpType: the keys (real instructions)
InstructionToOpType == {<<"ecall">>, <<"ebreak">>}

\* assembler.PseudoToInstruction: key -> length of the list retFunc(parts) returns
\* (the tables live in the assembler package; "la" lowers to two instructions,
\* "li" with a small immediate to one)
PseudoToInstruction == (<<"la">> :> 2) @@ (<<"li">> :> 1)

\* the literal the builder injects and the scanner counts
EBREAK == <<"ebreak">>

\* ------------------------------------------------------------ input lines
LineSet ==
    { <<>>,                    \* blank
      <<"#", "x">>,            \* comment
      <<"x", ":">>,            \* label: neither blank, comment nor instruction
      <<SP, "ecall", SP>>,     \* real instruction, indented
      <<"ebreak">>,            \* a trap the user wrote
      <<"la", SP, "x">> }      \* pseudo-instruction lowering to two instructions

\* every line a document or an instrumented document can hold
KnownLines == LineSet \cup {<<>>, EBREAK}

\* ------------------------------------------------------------------ state
VARIABLES
    text,                \* editor.ToPlainText()
    currentFilePath,     \* "" when no file is open
    breakpoints,         \* debugInfo.breakpoints: map[int]bool as a function
    globals,             \* the package variables the debug handlers write, see below
    workers,             \* the goroutines continueDebugCode started, see below
    RecentFiles,         \* preferences.RecentFiles
    terminal             \* initTerminalIO: updateCh and the threads that use it

vars == <<text, currentFilePath, breakpoints, globals, workers, RecentFiles, terminal>>

isDebugging         == globals.isDebugging          \* debugInfo.isDebugging
cpu                 == globals.cpu                  \* debugInfo.cpu: <<>> is nil, else <<[PC, Memory, Registers]>>
debugToolbarVisible == globals.debugToolbarVisible  \* debugToolbar.SetVisible
debugFileSplit      == globals.debugFileSplit       \* <<>> is the nil slice
realFileSplit       == globals.realFileSplit        \* <<>> is the nil slice
currentHighline     == globals.currentHighline
tempFile            == globals.tempFile             \* temp_<file> on disk, <<>> before the first write
outputExe           == globals.outputExe            \* the text output.exe was assembled from, <<>> if none
lastCall            == globals.lastCall             \* locals of the last HighlightLine run on the current slices
crashed             == globals.crashed              \* a nil dereference ended the process

Nil == <<>>

\* Go map read: a missing key reads as false
bpLookup(bps, i) == i \in DOMAIN bps /\ bps[i]

\* ------------------------------------------- instrumentation (debugCode loop)
\* lines 506-516 / 594-604 and 801-811: the line is not blank, not a comment, and
\* its first field is a key of InstructionToOpType or of PseudoToInstruction
IsInstructionLine(line) ==
    LET trimmedLine == TrimSpace(line) IN
    /\ trimmedLine # <<>>
    /\ ~HasPrefix(trimmedLine, <<"#">>)
    /\ ~HasPrefix(trimmedLine, <<"/", "/">>)
    /\ LET parts == Fields(trimmedLine) IN
       /\ Len(parts) > 0
       /\ LET isInstruction  == parts[1] \in InstructionToOpType
              isInstruction2 == parts[1] \in DOMAIN PseudoToInstruction
          IN isInstruction \/ isInstruction2

\* parts[0] of a line that passed the test above
FirstField(line) == Fields(TrimSpace(line))[1]

\* the three facts the loops use about a line, tabulated once per known line
LineFacts ==
    [line \in KnownLines |->
        IF ~IsInstructionLine(line)
        THEN [instruction |-> FALSE, expansion |-> 0, ebreak |-> FALSE]
        ELSE [instruction |-> TRUE,
              \* len(retFunc(parts)) for a pseudo-instruction, lines 818-821
              expansion   |-> IF FirstField(line) \in DOMAIN PseudoToInstruction
                              THEN PseudoToInstruction[FirstField(line)] ELSE 1,
              \* parts[0] == "ebreak", line 822
              ebreak      |-> FirstField(line) = EBREAK]]

\* line 516: the loop writes "ebreak\n" before the line
InsertsEbreakAnyLine(line, lineIndex, bps) == bpLookup(bps, lineIndex)

InsertsEbreak(line, lineIndex, bps) ==
    LineFacts[line].instruction /\ bpLookup(bps, lineIndex)

RECURSIVE modifiedContentFrom(_, _, _, _)
modifiedContentFrom(lines, lineIndex, bps, content) ==
    IF lineIndex >= Len(lines) THEN content
    ELSE LET line == lines[lineIndex + 1]
             trap == IF InsertsEbreak(line, lineIndex, bps) THEN EBREAK \o <<NL>> ELSE <<>>
         IN modifiedContentFrom(lines, lineIndex + 1, bps, content \o trap \o line \o <<NL>>)

\* modifiedContent.String() after the loop over strings.Split(editor.ToPlainText(), "\n")
modifiedContent(txt, bps) == modifiedContentFrom(Split(txt), 0, bps, <<>>)

\* ------------------------------------------------------- getRelevantLine
\* line 815: the test that ends the scan
CountReached(instructionCount, lineNum) == instructionCount = lineNum

\* line 828: the result when the loop runs out of lines
ScanExhaustedLast(lines, nBreaks) == <<Len(lines) - 1, nBreaks>>

ScanExhausted(lines, nBreaks) == <<-1, nBreaks>>

RECURSIVE getRelevantLineFrom(_, _, _, _, _)
getRelevantLineFrom(lineNum, lines, i, instructionCount, nBreaks) ==
    IF i >= Len(lines) THEN ScanExhausted(lines, nBreaks)
    ELSE
    LET facts == LineFacts[lines[i + 1]] IN
    IF ~facts.instruction
    THEN getRelevantLineFrom(lineNum, lines, i + 1, instructionCount, nBreaks)
    ELSE IF CountReached(instructionCount + 1, lineNum) THEN <<i, nBreaks>>
    ELSE getRelevantLineFrom(lineNum, lines, i + 1,
                             instructionCount + 1 + (facts.expansion - 1),
                             nBreaks + (IF facts.ebreak THEN 1 ELSE 0))

\* a scan that counts the ebreak it stops on (line 822 moved before line 815)
getRelevantLineCountingHit(lineNum, lines) ==
    LET found == getRelevantLineFrom(lineNum, lines, 0, 0, 0)
    IN IF found[1] >= 0 /\ LineFacts[lines[found[1] + 1]].ebreak
       THEN <<found[1], found[2] + 1>> ELSE found

\* (line index or -1, ebreak lines passed); ranging over a nil slice runs no iteration
getRelevantLine(lineNum, lines) == getRelevantLineFrom(lineNum, lines, 0, 0, 0)

\* --------------------------------------------------------- HighlightLine
\* line 836
ResolveSum(realFileVal, realBreaks, debugBreaks) == realFileVal + realBreaks + debugBreaks

Resolve(realFileVal, realBreaks, debugBreaks) == realFileVal + (realBreaks - debugBreaks)

\* the locals of one HighlightLine(lineNum) run against the given slices
HighlightLineCall(lineNum, realLines, debugLines) ==
    LET realScan  == getRelevantLine(lineNum, realLines)
        debugScan == getRelevantLine(lineNum, debugLines)
    IN [lineNum    |-> lineNum,
        realScan   |-> realScan,
        debugScan  |-> debugScan,
        result     |-> Resolve(realScan[1], realScan[2], debugScan[2])]

\* ------------------------------------------------ handlers as state updates
\* hideDebugWindows: hides the toolbar and clears the highlight
hideDebugWindowsOn(s) ==
    [s EXCEPT !.debugToolbarVisible = FALSE, !.currentHighline = -1]

\* lines 655-656 left out: the slices survive the session
stopDebuggingOnKeepingSlices(s) ==
    IF ~s.isDebugging THEN s
    ELSE [hideDebugWindowsOn([s EXCEPT !.isDebugging = FALSE, !.cpu = Nil])
            EXCEPT !.lastCall = Nil]

\* stopDebugging; the session's last HighlightLine run ends with the session
stopDebuggingOn(s) ==
    IF ~s.isDebugging THEN s
    ELSE [hideDebugWindowsOn([s EXCEPT !.isDebugging = FALSE, !.cpu = Nil])
            EXCEPT !.debugFileSplit = Nil, !.realFileSplit = Nil, !.lastCall = Nil]

\* HighlightLine: currentHighline keeps the resolved value also when it is < 1
\* (the early return of line 837 only skips the scrolling and the Update)
HighlightLineOn(s, lineNum) ==
    LET call == HighlightLineCall(lineNum, s.realFileSplit, s.debugFileSplit)
    IN [s EXCEPT !.currentHighline = call.result, !.lastCall = <<call>>]

\* what the collaborators (file system, assembler, engine's LoadFile) may answer
Failures == {"mkdirFail", "writeFail", "asmFail", "loadFail"}

\* the engine's program counter: instruction-aligned, or below the first slot
PCValues == {p \in 0..(4 * MaxPCIdx) : p % 4 = 0 \/ p = 2}

ExecStates == {"PROGRAM_EXIT", "PROGRAM_EXIT_FAILURE", "E_BREAK", "RUNNING"}

\* rcore.NewMemory(): nothing loaded
NewMemory == <<>>

\* rcore.NewCPU(memory): PC 0 and the register file as reset
NewCPU(memory) == <<[PC |-> 0, Memory |-> memory, Registers |-> "reset"]>>

\* cpu.ExecuteSingle(): the engine moves the PC and has used the register file;
\* which instruction ran is the engine's business, the new PC is its answer
ExecuteSingle(c, newPC) == [c EXCEPT !.PC = newPC, !.Registers = "used"]

\* a debugCode without lines 484-487 that keeps a CPU it finds (line 550)
debugCodeOnReusingSession(s, txt, bps, outcome, entryPC) ==
    LET content == modifiedContent(txt, bps)
        s2 == [s EXCEPT !.debugFileSplit = Split(content), !.realFileSplit = Split(txt)]
        s3 == [s2 EXCEPT !.tempFile = content]
        s4 == [s3 EXCEPT !.outputExe = content,
                         !.isDebugging = TRUE,
                         !.cpu = IF s.cpu = Nil THEN NewCPU(NewMemory) ELSE s.cpu,
                         !.debugToolbarVisible = TRUE]
        s5 == [s4 EXCEPT !.cpu = <<[s4.cpu[1] EXCEPT !.PC = entryPC, !.Memory = s4.outputExe]>>]
        lineNum == IF entryPC # 0 THEN (entryPC \div 4) + 1 ELSE 1
    IN CASE outcome = "mkdirFail" -> s
         [] outcome = "writeFail" -> s2
         [] outcome = "asmFail"   -> s3
         [] outcome = "loadFail"  -> stopDebuggingOn(s4)
         [] OTHER                 -> HighlightLineOn(s5, lineNum)

\* a debugCode whose LoadFile failure returns without stopDebugging (line 560)
debugCodeOnLoadFailureReturning(s, txt, bps, outcome, entryPC) ==
    LET s1 == stopDebuggingOn(s)
        content == modifiedContent(txt, bps)
        s2 == [s1 EXCEPT !.debugFileSplit = Split(content), !.realFileSplit = Split(txt)]
        s3 == [s2 EXCEPT !.tempFile = content]
        s4 == [s3 EXCEPT !.outputExe = content,
                         !.isDebugging = TRUE,
                         !.cpu = NewCPU(NewMemory),
                         !.debugToolbarVisible = TRUE]
        s5 == [s4 EXCEPT !.cpu = <<[s4.cpu[1] EXCEPT !.PC = entryPC, !.Memory = s4.outputExe]>>]
        lineNum == IF entryPC # 0 THEN (entryPC \div 4) + 1 ELSE 1
    IN CASE outcome = "mkdirFail" -> s1
         [] outcome = "writeFail" -> s2
         [] outcome = "asmFail"   -> s3
         [] outcome = "loadFail"  -> s4
         [] OTHER                 -> HighlightLineOn(s5, lineNum)

debugCodeOn(s, txt, bps, outcome, entryPC) ==
    LET s1 == stopDebuggingOn(s)
        content == modifiedContent(txt, bps)
        s2 == [s1 EXCEPT !.debugFileSplit = Split(content), !.realFileSplit = Split(txt)]
        s3 == [s2 EXCEPT !.tempFile = content]
        s4 == [s3 EXCEPT !.outputExe = content,
                         !.isDebugging = TRUE,
                         !.cpu = NewCPU(NewMemory),
                         !.debugToolbarVisible = TRUE]
        s5 == [s4 EXCEPT !.cpu = <<[s4.cpu[1] EXCEPT !.PC = entryPC, !.Memory = s4.outputExe]>>]
        lineNum == IF entryPC # 0 THEN (entryPC \div 4) + 1 ELSE 1
    IN CASE outcome = "mkdirFail" -> s1
         [] outcome = "writeFail" -> s2
         [] outcome = "asmFail"   -> s3
         [] outcome = "loadFail"  -> stopDebuggingOn(s4)
         [] OTHER                 -> HighlightLineOn(s5, lineNum)

\* a hot reload without line 642: the PC stays where LoadFile put it, taken
\* here as the start of the image
hotReloadCodeOnRestarting(s, txt, bps, outcome) ==
    LET content == modifiedContent(txt, bps)
        s2 == [s EXCEPT !.debugFileSplit = Split(content), !.realFileSplit = Split(txt),
                        !.lastCall = Nil]
        s3 == [s2 EXCEPT !.tempFile = content]
        s4 == [s3 EXCEPT !.outputExe = content, !.debugToolbarVisible = TRUE]
    IN CASE outcome = "mkdirFail" -> s
         [] outcome = "writeFail" -> s2
         [] outcome = "asmFail"   -> s3
         [] s4.cpu = Nil          -> [s4 EXCEPT !.crashed = TRUE]
         [] outcome = "loadFail"  -> [s4 EXCEPT !.cpu = <<[s4.cpu[1] EXCEPT !.Memory = NewMemory]>>]
         [] OTHER                 -> [s4 EXCEPT !.cpu = <<[s4.cpu[1] EXCEPT !.PC = 0, !.Memory = content]>>]

\* hotReloadCode replaces the slices without a HighlightLine run, so the locals
\* kept of the last run no longer describe them; a nil cpu panics at line 634
hotReloadCodeOn(s, txt, bps, outcome) ==
    LET content == modifiedContent(txt, bps)
        s2 == [s EXCEPT !.debugFileSplit = Split(content), !.realFileSplit = Split(txt),
                        !.lastCall = Nil]
        s3 == [s2 EXCEPT !.tempFile = content]
        s4 == [s3 EXCEPT !.outputExe = content, !.debugToolbarVisible = TRUE]
        oldPC == s4.cpu[1].PC
    IN CASE outcome = "mkdirFail" -> s
         [] outcome = "writeFail" -> s2
         [] outcome = "asmFail"   -> s3
         [] s4.cpu = Nil          -> [s4 EXCEPT !.crashed = TRUE]
         [] outcome = "loadFail"  -> [s4 EXCEPT !.cpu = <<[s4.cpu[1] EXCEPT !.Memory = NewMemory]>>]
         [] OTHER                 -> [s4 EXCEPT !.cpu = <<[s4.cpu[1] EXCEPT !.PC = oldPC, !.Memory = content]>>]

\* a Step that ends the session on E_BREAK as well
stepDebugCodeOnStoppingAtBreak(s, state, newPC) ==
    IF ~s.isDebugging \/ s.cpu = Nil THEN s
    ELSE LET s1 == [s EXCEPT !.cpu = <<ExecuteSingle(s.cpu[1], newPC)>>]
             lineNum == IF newPC # 0 THEN newPC \div 4 ELSE 1
             s2 == HighlightLineOn(s1, lineNum)
         IN IF state \in {"PROGRAM_EXIT", "PROGRAM_EXIT_FAILURE", "E_BREAK"}
            THEN stopDebuggingOn(s2) ELSE s2

\* stepDebugCode: the guard, ExecuteSingle, HighlightLine, stopDebugging on exit
stepDebugCodeOn(s, state, newPC) ==
    IF ~s.isDebugging \/ s.cpu = Nil THEN s
    ELSE LET s1 == [s EXCEPT !.cpu = <<ExecuteSingle(s.cpu[1], newPC)>>]
             lineNum == IF newPC # 0 THEN newPC \div 4 ELSE 1
             s2 == HighlightLineOn(s1, lineNum)
         IN IF state \in {"PROGRAM_EXIT", "PROGRAM_EXIT_FAILURE"}
            THEN stopDebuggingOn(s2) ELSE s2

\* ---------------------------------------------------------------- actions
UIFrame == UNCHANGED <<text, currentFilePath, breakpoints, RecentFiles, terminal>>

\* a goroutine's record after stopDebugging ended the session that was active:
\* its session is over, and the CPU it is executing on, if it is inside
\* ExecuteSingle, is no longer the one debugInfo.cpu points to
sessionStopped(ws) ==
    [w \in DOMAIN ws |->
        IF ws[w].pc = "none" THEN ws[w]
        ELSE [ws[w] EXCEPT !.stopped = TRUE,
                           !.stale = (ws[w].pc = "executing")]]

\* a failure at one of the steps, or LoadFile succeeds and leaves its entry PC
DebugAnswers ==
    {[outcome |-> f, entryPC |-> 0] : f \in Failures}
      \cup {[outcome |-> "ok", entryPC |-> p] : p \in PCValues}

\* toolbar/menu "Debug"
debugCode ==
    /\ ~crashed
    /\ \E answer \in DebugAnswers :
          globals' = (IF currentFilePath = "" THEN globals
                 ELSE debugCodeOn(globals, text, breakpoints, answer.outcome, answer.entryPC))
    /\ workers' = (IF currentFilePath # "" /\ isDebugging
                   THEN sessionStopped(workers) ELSE workers)
    /\ UIFrame

\* debug toolbar "HotReload"
hotReloadCode ==
    /\ ~crashed
    /\ debugToolbarVisible
    /\ \E outcome \in Failures \cup {"ok"} : globals' = hotReloadCodeOn(globals, text, breakpoints, outcome)
    /\ UNCHANGED workers
    /\ UIFrame

\* debug toolbar "Step"
stepDebugCode ==
    /\ ~crashed
    /\ debugToolbarVisible
    /\ \E state \in ExecStates, newPC \in PCValues :
          /\ globals' = stepDebugCodeOn(globals, state, newPC)
          /\ workers' = (IF /\ isDebugging /\ cpu # Nil
                            /\ state \in {"PROGRAM_EXIT", "PROGRAM_EXIT_FAILURE"}
                         THEN sessionStopped(workers) ELSE workers)
    /\ UIFrame

\* a Stop that also empties debugInfo.breakpoints
stopDebuggingClearing ==
    /\ ~crashed
    /\ debugToolbarVisible
    /\ globals' = stopDebuggingOn(globals)
    /\ workers' = (IF isDebugging THEN sessionStopped(workers) ELSE workers)
    /\ breakpoints' = <<>>
    /\ UNCHANGED <<text, currentFilePath, RecentFiles, terminal>>

\* debug toolbar "Stop"
stopDebugging ==
    /\ ~crashed
    /\ debugToolbarVisible
    /\ globals' = stopDebuggingOn(globals)
    /\ workers' = (IF isDebugging THEN sessionStopped(workers) ELSE workers)
    /\ UIFrame

\* lineNumberAreaPaint, line 354: is the block drawn with a breakpoint marker
breakpointMarker(blockNumber) == bpLookup(breakpoints, blockNumber)

\* lineNumberAreaPaint, line 365: is the block filled as the current debug line
lineNumberAreaPaint(blockNumber) == isDebugging /\ blockNumber = currentHighline

\* ------------------------------------------------------------ input texts
RECURSIVE Join(_)
Join(doc) == IF Len(doc) = 1 THEN doc[1] ELSE doc[1] \o <<NL>> \o Join(Tail(doc))

Texts == {Join(doc) : doc \in UNION {[1..n -> LineSet] : n \in 1..MaxLines}}

BreakpointMaps(txt) == {[i \in S |-> TRUE] : S \in SUBSET (0..(Len(Split(txt)) - 1))}

\* ------------------------------------------------- editor and gutter
GutterHeight == 5      \* the gutter's pixel rows: a click has 0 <= y <= GutterHeight

\* e.BlockBoundingRect(block).Height(): every block is one unwrapped text line
BlockBoundingRectHeight(block) == 2

\* the loop of BlockAtPosition, lines 991-1003; block is valid while block < blockCount
RECURSIVE BlockAtPositionFrom(_, _, _, _, _, _)
BlockAtPositionFrom(blockCount, y, block, top, bottom, blockNumber) ==
    IF ~(block < blockCount /\ top <= y) THEN blockNumber
    ELSE IF y <= bottom THEN blockNumber
    ELSE BlockAtPositionFrom(blockCount, y, block + 1, bottom,
                             IF block + 1 < blockCount
                             THEN bottom + BlockBoundingRectHeight(block + 1) ELSE bottom,
                             blockNumber + 1)

\* e.BlockAtPosition(y) with the document scrolled to its top: the first visible
\* block is block 0 at top 0 (a document always has a block, so line 982 is not taken)
BlockAtPosition(txt, y) ==
    BlockAtPositionFrom(Len(Split(txt)), y, 0, 0, BlockBoundingRectHeight(0), 1)

\* a toggle that stores false instead of deleting the key (line 788)
toggleStoringFalse(bps, lineNumber) ==
    [i \in DOMAIN bps \cup {lineNumber} |->
        IF i = lineNumber THEN ~bpLookup(bps, lineNumber) ELSE bps[i]]

\* lines 787-791: delete the key, or set it
toggle(bps, lineNumber) ==
    IF bpLookup(bps, lineNumber)
    THEN [i \in DOMAIN bps \ {lineNumber} |-> bps[i]]
    ELSE [i \in DOMAIN bps \cup {lineNumber} |->
             IF i = lineNumber THEN TRUE ELSE bps[i]]

\* a click in the gutter at height y
lineNumberAreaMousePress ==
    /\ ~crashed
    /\ \E y \in 0..GutterHeight :
          LET blockNumber == BlockAtPosition(text, y)
              lineNumber  == blockNumber - 1
          IN breakpoints' = toggle(breakpoints, lineNumber)
    /\ UNCHANGED <<text, currentFilePath, globals, workers, RecentFiles, terminal>>

\* the texts the user types and the files on disk hold
Documents ==
    { <<>>,
      <<SP, "ecall", SP>> }

\* a textChanged handler that splits the new text into realFileSplit again
textChangedSplitting ==
    /\ ~crashed
    /\ \E txt \in Documents \ {text} :
          /\ text' = txt
          /\ globals' = [globals EXCEPT !.realFileSplit =
                            IF realFileSplit = Nil THEN Nil ELSE Split(txt)]
    /\ UNCHANGED <<currentFilePath, breakpoints, workers, RecentFiles, terminal>>

\* the user changes the text; the textChanged handler only re-highlights syntax
textChanged ==
    /\ ~crashed
    /\ \E txt \in Documents \ {text} : text' = txt
    /\ UNCHANGED <<currentFilePath, breakpoints, globals, workers, RecentFiles, terminal>>

\* ---------------------------------------------------------- recent files
\* the first index of filePath in list, 0 when it is not there (the range loop)
RECURSIVE IndexFrom(_, _, _)
IndexFrom(list, filePath, i) ==
    IF i > Len(list) THEN 0
    ELSE IF list[i] = filePath THEN i
    ELSE IndexFrom(list, filePath, i + 1)

\* the limit of lines 611-612
MaxRecentFiles == 10

\* an AddRecentFile that leaves a path it finds where it is
AddRecentFileInPlace(list, filePath) ==
    LET i == IndexFrom(list, filePath, 1) IN
    IF i # 0 THEN list
    ELSE LET added == <<filePath>> \o list IN
         IF Len(added) > MaxRecentFiles THEN SubSeq(added, 1, MaxRecentFiles) ELSE added

\* AddRecentFile: preferences.RecentFiles after the call
AddRecentFile(list, filePath) ==
    LET i == IndexFrom(list, filePath, 1) IN
    IF i # 0
    THEN <<filePath>> \o SubSeq(list, 1, i - 1) \o SubSeq(list, i + 1, Len(list))
    ELSE LET added == <<filePath>> \o list IN
         IF Len(added) > MaxRecentFiles THEN SubSeq(added, 1, MaxRecentFiles) ELSE added

\* openFile(path) for a path of paths and a content of docs; a failed read
\* changes nothing
openFileFrom(paths, docs) ==
    /\ ~crashed
    /\ \E path \in paths, data \in docs, ok \in BOOLEAN :
          IF ok THEN /\ currentFilePath' = path
                     /\ text' = data
                     /\ RecentFiles' = AddRecentFile(RecentFiles, path)
                ELSE UNCHANGED <<currentFilePath, text, RecentFiles, terminal>>
    /\ UNCHANGED <<breakpoints, globals, workers, terminal>>

\* the file the editing sessions work on
openFile == openFileFrom({"a.asm"}, Documents)

MaxLoaded == 11        \* entries of the longest list the preferences file holds

\* the paths of the file system, in the order the preferences file lists them
RecentNames ==
    <<"f01", "f02", "f03", "f04", "f05", "f06", "f07",
      "f08", "f09", "f10", "f11", "f12", "f13">>

\* what json.Unmarshal may put in preferences.RecentFiles: nothing checks the
\* file, so the list may be longer than the limit and may repeat a path
LoadedLists ==
    {SubSeq(RecentNames, 1, n) : n \in 0..MaxLoaded}
      \cup {<<RecentNames[1], RecentNames[2], RecentNames[1]>>,
            <<RecentNames[2], RecentNames[1], RecentNames[1]>>}

\* the paths the user picks: the first and the tenth of the file's list, and
\* one no loaded list holds
PickedPaths == {RecentNames[1], RecentNames[MaxRecentFiles], RecentNames[MaxLoaded + 1]}

\* openFileDialog: the user picks a file
openFileDialog == openFileFrom(PickedPaths, {<<>>})

\* preferences dialog, "Clear Recent Files"
clearRecentFiles ==
    /\ ~crashed
    /\ RecentFiles' = <<>>
    /\ UNCHANGED <<text, currentFilePath, breakpoints, globals, workers, terminal>>

\* ------------------------------------------------- the Continue goroutine
MaxWorkers == 1        \* goroutines of continueDebugCode alive at a time

\* a slot without a goroutine; reads keeps the slices its last HighlightLine
\* read; stopped and stale are what sessionStopped recorded of a goroutine
NoWorker ==
    [pc |-> "none", lineNum |-> 0, realLines |-> Nil, reads |-> Nil,
     stopped |-> FALSE, stale |-> FALSE]

NoWorkers == [w \in 1..MaxWorkers |-> NoWorker]

\* debug toolbar "Continue": the guard of line 441, then `go func()`
continueDebugCode ==
    /\ ~crashed
    /\ debugToolbarVisible
    /\ IF ~isDebugging \/ cpu = Nil THEN UNCHANGED workers
       ELSE \E w \in 1..MaxWorkers :
               /\ workers[w].pc = "none"
               /\ \A v \in 1..(w - 1) : workers[v].pc # "none"
               /\ workers' = [workers EXCEPT ![w] = [NoWorker EXCEPT !.pc = "loop"]]
    /\ UNCHANGED <<text, currentFilePath, breakpoints, globals, RecentFiles, terminal>>

\* line 446: the loop condition; after the loop updateRegistersDisplay and the end
workerLoop(w) ==
    /\ ~crashed
    /\ workers[w].pc = "loop"
    /\ workers' = [workers EXCEPT ![w] =
                      IF isDebugging THEN [@ EXCEPT !.pc = "exec"]
                      ELSE [@ EXCEPT !.pc = "none", !.stopped = FALSE]]
    /\ UNCHANGED <<text, currentFilePath, breakpoints, globals, RecentFiles, terminal>>

\* line 447: the call of ExecuteSingle on debugInfo.cpu as it is now; a nil
\* cpu panics
workerExecuteSingle(w) ==
    /\ ~crashed
    /\ workers[w].pc = "exec"
    /\ IF cpu = Nil
       THEN /\ globals' = [globals EXCEPT !.crashed = TRUE]
            /\ UNCHANGED workers
       ELSE /\ workers' = [workers EXCEPT ![w].pc = "executing"]
            /\ UNCHANGED globals
    /\ UNCHANGED <<text, currentFilePath, breakpoints, RecentFiles, terminal>>

\* line 447: ExecuteSingle returns; it has worked on the CPU it was called on,
\* which debugInfo.cpu still points to unless the session was stopped meanwhile
workerExecuteReturn(w) ==
    /\ ~crashed
    /\ workers[w].pc = "executing"
    /\ \E state \in ExecStates, newPC \in PCValues :
          /\ globals' = (IF workers[w].stale THEN globals
                         ELSE [globals EXCEPT !.cpu = <<ExecuteSingle(cpu[1], newPC)>>])
          /\ workers' = [workers EXCEPT ![w].stale = FALSE,
                                        ![w].pc =
                            CASE state = "E_BREAK" -> "ebreak"
                              [] state = "RUNNING" -> "loop"
                              [] OTHER             -> "exit"]
    /\ UNCHANGED <<text, currentFilePath, breakpoints, RecentFiles, terminal>>

\* lines 450-457: stopDebugging(), return
workerExit(w) ==
    /\ ~crashed
    /\ workers[w].pc = "exit"
    /\ globals' = stopDebuggingOn(globals)
    /\ workers' = [(IF isDebugging THEN sessionStopped(workers) ELSE workers)
                      EXCEPT ![w] = [@ EXCEPT !.pc = "none", !.stopped = FALSE]]
    /\ UNCHANGED <<text, currentFilePath, breakpoints, RecentFiles, terminal>>

\* lines 458-465: the message and lineNum read debugInfo.cpu.PC; a nil cpu panics
workerEbreak(w) ==
    /\ ~crashed
    /\ workers[w].pc = "ebreak"
    /\ IF cpu = Nil
       THEN /\ globals' = [globals EXCEPT !.crashed = TRUE]
            /\ UNCHANGED workers
       ELSE /\ workers' = [workers EXCEPT ![w].pc = "highlightReal",
                                          ![w].lineNum = IF cpu[1].PC # 0
                                                         THEN cpu[1].PC \div 4 ELSE 1]
            /\ UNCHANGED globals
    /\ UNCHANGED <<text, currentFilePath, breakpoints, RecentFiles, terminal>>

\* HighlightLine, lines 832-833: currentHighline = -1, then realFileSplit is read
workerHighlightReal(w) ==
    /\ ~crashed
    /\ workers[w].pc = "highlightReal"
    /\ globals' = [globals EXCEPT !.currentHighline = -1]
    /\ workers' = [workers EXCEPT ![w].pc = "highlightDebug",
                                  ![w].realLines = realFileSplit]
    /\ UNCHANGED <<text, currentFilePath, breakpoints, RecentFiles, terminal>>

\* HighlightLine, lines 834-836: debugFileSplit is read, currentHighline written
workerHighlightDebug(w) ==
    /\ ~crashed
    /\ workers[w].pc = "highlightDebug"
    /\ LET call == HighlightLineCall(workers[w].lineNum, workers[w].realLines, debugFileSplit)
       IN globals' = [globals EXCEPT !.currentHighline = call.result, !.lastCall = <<call>>]
    /\ workers' = [workers EXCEPT ![w] =
                      [NoWorker EXCEPT !.reads = <<[realLines  |-> workers[w].realLines,
                                                    debugLines |-> debugFileSplit]>>]]
    /\ UNCHANGED <<text, currentFilePath, breakpoints, RecentFiles, terminal>>

\* one step of one goroutine
worker ==
    \E w \in 1..MaxWorkers :
        \/ workerLoop(w)
        \/ workerExecuteSingle(w)
        \/ workerExecuteReturn(w)
        \/ workerExit(w)
        \/ workerEbreak(w)
        \/ workerHighlightReal(w)
        \/ workerHighlightDebug(w)

\* ------------------------------------------------------------ terminal I/O
\* make(chan string, 100)
UpdateChCapacity == 100

\* what initTerminalIO leaves: updateCh is empty (its messages are kept as a
\* count: no receiver looks at one before taking it), nothing is typed, the
\* UI thread is in its event loop, and the goroutine is about to Read
TerminalStarted ==
    [updateCh |-> 0, currentInput |-> "", ui |-> "idle", reader |-> "read"]

\* everything but the terminal
TerminalFrame ==
    UNCHANGED <<text, currentFilePath, breakpoints, globals, workers, RecentFiles>>

\* the key handler of terminalInput up to its return, or, for Enter with
\* input typed, up to the send on updateCh (stdinW.Write has been done)
terminalKeyPress ==
    /\ terminal.ui = "idle"
    /\ \E key \in {"Enter", "Backspace", "Char"} :
          terminal' =
             CASE key = "Enter" ->
                    IF terminal.currentInput # ""
                    THEN [terminal EXCEPT !.ui = "send"] ELSE terminal
               [] key = "Backspace" -> [terminal EXCEPT !.currentInput = ""]
               [] OTHER -> [terminal EXCEPT !.currentInput = "c"]
    /\ TerminalFrame

\* the key handler's `updateCh <- currentInput + "\n"`: it waits for room in
\* the channel; then the input is cleared and the handler returns
terminalKeySend ==
    /\ terminal.ui = "send"
    /\ terminal.updateCh < UpdateChCapacity
    /\ terminal' = [terminal EXCEPT !.updateCh = @ + 1,
                                    !.currentInput = "",
                                    !.ui = "idle"]
    /\ TerminalFrame

\* the timer's timeout callback is dispatched by the event loop
timerTimeout ==
    /\ terminal.ui = "idle"
    /\ terminal' = [terminal EXCEPT !.ui = "drain"]
    /\ TerminalFrame

\* one round of the callback's select: receive and append, or default and return
timerSelect ==
    /\ terminal.ui = "drain"
    /\ terminal' = (IF terminal.updateCh > 0
                    THEN [terminal EXCEPT !.updateCh = @ - 1]
                    ELSE [terminal EXCEPT !.ui = "idle"])
    /\ TerminalFrame

\* the goroutine's reader.Read returns output of the program
readerRead ==
    /\ terminal.reader = "read"
    /\ terminal' = [terminal EXCEPT !.reader = "send"]
    /\ TerminalFrame

\* the goroutine's `updateCh <- output`: it waits for room in the channel
readerSend ==
    /\ terminal.reader = "send"
    /\ terminal.updateCh < UpdateChCapacity
    /\ terminal' = [terminal EXCEPT !.updateCh = @ + 1, !.reader = "read"]
    /\ TerminalFrame

\* ---------------------------------------------------------- specifications
Constructed ==
    globals = [isDebugging         |-> FALSE,
               cpu                 |-> Nil,
               debugToolbarVisible |-> FALSE,
               debugFileSplit      |-> Nil,
               realFileSplit       |-> Nil,
               currentHighline     |-> 0,
               tempFile            |-> Nil,
               outputExe           |-> Nil,
               lastCall            |-> Nil,
               crashed             |-> FALSE]

\* a file is open and the breakpoints are set: the inputs of the line mapping
InitMap ==
    /\ text \in Texts
    /\ currentFilePath = "a.asm"
    /\ breakpoints \in BreakpointMaps(text)
    /\ Constructed
    /\ workers = NoWorkers
    /\ terminal = TerminalStarted
    /\ RecentFiles = <<"a.asm">>

NextMap ==
    \/ debugCode
    \/ hotReloadCode
    \/ stepDebugCode
    \/ stopDebugging

MapSpec == InitMap /\ [][NextMap]_vars

\* the window as main() leaves it: no file, no text, no breakpoint, no session
Init ==
    /\ text = <<>>
    /\ currentFilePath = ""
    /\ breakpoints = <<>>
    /\ Constructed
    /\ workers = NoWorkers
    /\ terminal = TerminalStarted
    /\ RecentFiles = <<>>

\* what the user does on the UI thread
Next ==
    \/ openFile
    \/ textChanged
    \/ lineNumberAreaMousePress
    \/ debugCode
    \/ hotReloadCode
    \/ stepDebugCode
    \/ stopDebugging

Spec == Init /\ [][Next]_vars

\* a file with an instruction is open, with or without a breakpoint on it
InitConc ==
    /\ text = <<SP, "ecall", SP>>
    /\ currentFilePath = "a.asm"
    /\ breakpoints \in {<<>>, toggle(<<>>, 0)}
    /\ Constructed
    /\ workers = NoWorkers
    /\ terminal = TerminalStarted
    /\ RecentFiles = <<"a.asm">>

\* the UI thread's debug handlers and the goroutines, interleaved
NextConc ==
    \/ debugCode
    \/ hotReloadCode
    \/ stepDebugCode
    \/ stopDebugging
    \/ continueDebugCode
    \/ worker

ConcSpec == InitConc /\ [][NextConc]_vars

\* the window after InitPreferences loaded a preferences file without a last
\* project: no file is opened yet
InitRecent ==
    /\ text = <<>>
    /\ currentFilePath = ""
    /\ breakpoints = <<>>
    /\ Constructed
    /\ workers = NoWorkers
    /\ terminal = TerminalStarted
    /\ RecentFiles \in LoadedLists

NextRecent ==
    \/ openFileDialog
    \/ clearRecentFiles

RecentSpec == InitRecent /\ [][NextRecent]_vars

\* the terminal of the window as main() leaves it
InitTerminal == Init

\* the UI thread's terminal callbacks and the stdout goroutine, interleaved
NextTerminal ==
    \/ terminalKeyPress
    \/ terminalKeySend
    \/ timerTimeout
    \/ timerSelect
    \/ readerRead
    \/ readerSend

TerminalSpec == InitTerminal /\ [][NextTerminal]_vars

\* ======================================================================
\* Claims.  In MapSpec the text and the breakpoints stay as drawn, so while
\* realFileSplit is set it is the split of text, and debugFileSplit is its
\* instrumentation under breakpoints.
\* ======================================================================

\* the 0-based indices of a slice
Indices(lines) == 0..(Len(lines) - 1)

\* glossary: the line's first token is a known real or pseudo mnemonic
InstructionBearing(line) == LineFacts[line].instruction

\* real instructions a line stands for (0 for a line that bears none)
Expansion(line) == LineFacts[line].expansion

RECURSIVE InstructionsBefore(_, _)
InstructionsBefore(lines, j) ==
    IF j = 0 THEN 0 ELSE InstructionsBefore(lines, j - 1) + Expansion(lines[j])

TotalInstructions(lines) == InstructionsBefore(lines, Len(lines))

\* the k-th real instruction of lines (1-based) lies on line j (0-based)
OnLine(lines, k, j) ==
    /\ InstructionBearing(lines[j + 1])
    /\ InstructionsBefore(lines, j) < k
    /\ k <= InstructionsBefore(lines, j) + Expansion(lines[j + 1])

\* source line i gets a trap: breakpointed and instruction-bearing
Trapped(i) == bpLookup(breakpoints, i) /\ InstructionBearing(realFileSplit[i + 1])

TrapsUpTo(i) == Cardinality({j \in 0..i : Trapped(j)})

\* where the copy of source line i lies in the instrumented document (0-based)
CopyPos(i) == i + TrapsUpTo(i)

Instrumented == debugFileSplit # Nil /\ realFileSplit # Nil

\* a session runs on the slices
Session == isDebugging /\ Instrumented

Resolved == lastCall # Nil

\* C1: whenever the k-th real instruction of the instrumented document lies on
\* the copy of source line i, HighlightLine(k) resolves to i.
C1_LineCorrespondence ==
    Resolved =>
        \A i \in Indices(realFileSplit) :
            OnLine(debugFileSplit, lastCall[1].lineNum, CopyPos(i))
                => lastCall[1].result = i

\* C2: whenever the k-th real instruction of the instrumented document is the
\* ebreak injected before source line i, HighlightLine(k) resolves to i.
C2_TrapHitResolution ==
    Resolved =>
        \A i \in Indices(realFileSplit) :
            (Trapped(i) /\ OnLine(debugFileSplit, lastCall[1].lineNum, CopyPos(i) - 1))
                => lastCall[1].result = i

\* the first instruction-bearing line after line j, or -1
NextInstructionLine(lines, j) ==
    LET later == {m \in Indices(lines) : m > j /\ InstructionBearing(lines[m + 1])}
    IN IF later = {} THEN -1 ELSE CHOOSE m \in later : \A o \in later : m <= o

\* the scan of lines for k attributes a pseudo-instruction atomically
PseudoAtomic(lines, k, found) ==
    \A j \in Indices(lines) :
        LET c == InstructionsBefore(lines, j) + 1
            n == Expansion(lines[j + 1])
        IN n >= 2 =>
            /\ (c <= k /\ k < c + n) => found = j
            /\ (k = c + n /\ NextInstructionLine(lines, j) # -1)
                   => found = NextInstructionLine(lines, j)

\* C3: for a pseudo-instruction on line L lowering to n >= 2 instructions and
\* starting at count c, getRelevantLine returns L for every k in c .. c+n-1 and
\* the next instruction-bearing line for k = c+n.
C3_PseudoAttribution ==
    Resolved =>
        /\ PseudoAtomic(realFileSplit, lastCall[1].lineNum, lastCall[1].realScan[1])
        /\ PseudoAtomic(debugFileSplit, lastCall[1].lineNum, lastCall[1].debugScan[1])

\* C4: the instrumented sequence is exactly as long as the source plus one
\* line per breakpointed instruction-bearing line.
C4_LengthInvariant ==
    Session =>
        Len(debugFileSplit) =
            Len(realFileSplit) + Cardinality({i \in Indices(realFileSplit) : Trapped(i)})

C6_NoBreakpointIdentity ==
    (Session /\ \A i \in Indices(realFileSplit) : ~bpLookup(breakpoints, i))
        => debugFileSplit = realFileSplit

\* k names no instruction of lines
OutOfRange(lines, k) == k = 0 \/ k > TotalInstructions(lines)

\* C7: for k = 0 and for k beyond the instruction count of the scanned slice
\* getRelevantLine returns -1; when that is the source scan, the resolved line
\* is negative and the gutter paints no block as the debug line.
C7_OutOfRange ==
    Resolved =>
        LET k == lastCall[1].lineNum IN
        /\ OutOfRange(debugFileSplit, k) => lastCall[1].debugScan[1] = -1
        /\ OutOfRange(realFileSplit, k) =>
              /\ lastCall[1].realScan[1] = -1
              /\ lastCall[1].result < 0
              /\ currentHighline = lastCall[1].result
              /\ \A blockNumber \in Indices(Split(text)) : ~lineNumberAreaPaint(blockNumber)

\* C7 witness: a document with instructions was scanned for an index past its last.
C7_Witness ==
    /\ Resolved
    /\ TotalInstructions(realFileSplit) > 0
    /\ lastCall[1].lineNum > TotalInstructions(debugFileSplit)

\* C8: after HighlightLine resolved to a value below 1, the gutter paints no
\* block as the current debug line while the session is active.
C8_HighlightSuppression ==
    (Resolved /\ isDebugging /\ lastCall[1].result < 1)
        => \A blockNumber \in Indices(Split(text)) : ~lineNumberAreaPaint(blockNumber)

\* getRelevantLine's line index is non-decreasing in k over 1 .. total
Monotonic(lines) ==
    \A k1, k2 \in 1..TotalInstructions(lines) :
        k1 <= k2 => getRelevantLine(k1, lines)[1] <= getRelevantLine(k2, lines)[1]

\* C9: for a fixed slice the line index getRelevantLine returns is
\* non-decreasing in k, pseudo-instructions included.
C9_MonotonicScan ==
    Session => Monotonic(realFileSplit) /\ Monotonic(debugFileSplit)

\* what HighlightLine(k) resolves when the same text is instrumented under the
\* empty breakpoint set
ResolvedWithoutBreakpoints(k) ==
    HighlightLineCall(k, Split(text), Split(modifiedContent(text, <<>>))).result

\* C10: the line resolved under the breakpoint set differs from the line
\* resolved under the empty set by exactly srcTraps - instrTraps.
C10_RoundTripAlignment ==
    Resolved =>
        lastCall[1].result - ResolvedWithoutBreakpoints(lastCall[1].lineNum)
            = lastCall[1].realScan[2] - lastCall[1].debugScan[2]

\* C10 witness: k is in range and the two scans passed different numbers of traps.
C10_Witness ==
    /\ Resolved
    /\ lastCall[1].debugScan[1] >= 0
    /\ lastCall[1].realScan[2] # lastCall[1].debugScan[2]

\* ----------------------------------------------------------------------
\* Session life cycle
\* ----------------------------------------------------------------------

\* this step ends an active session: stopDebugging ran past its guard, whether
\* called by Stop, on program exit, or by debugCode (restart, load failure)
SessionEnds == isDebugging /\ ~isDebugging'

\* the session has ended by stopDebugging and nothing was started since
Stopped ==
    /\ ~isDebugging
    /\ cpu = Nil
    /\ currentHighline = -1
    /\ tempFile # Nil

\* C11 as stated: after stopDebugging ends an active session (Stop, program
\* exit or load failure), debugInfo.breakpoints is empty.
C11_BreakpointsCleared == [][SessionEnds => breakpoints' = <<>>]_vars

\* C11 amended: stopDebugging leaves debugInfo.breakpoints as it was; the set
\* outlives the session.
C11_BreakpointsKept == [][SessionEnds => breakpoints' = breakpoints]_vars

\* C11 witness: a session has been stopped and a breakpoint is still set.
C11_Witness == Stopped /\ breakpoints # <<>>

\* C12: stopDebugging called on an active session leaves isDebugging false,
\* cpu nil, both snapshots nil and currentHighline -1.
C12_StopDiscardsSession ==
    isDebugging =>
        LET after == stopDebuggingOn(globals) IN
        /\ ~after.isDebugging
        /\ after.cpu = Nil
        /\ after.debugFileSplit = Nil
        /\ after.realFileSplit = Nil
        /\ after.currentHighline = -1

\* C12 witness: stopDebugging has ended a session that had a program loaded,
\* and no later debugCode attempt has written the slices again.
C12_Witness == Stopped /\ realFileSplit = Nil /\ outputExe # Nil

\* the instruction indices HighlightLine is asked about
Probes == 0..(MaxPCIdx + 1)

\* what HighlightLine(k) would resolve had the editor been instrumented now
ResolvedNow(k) ==
    HighlightLineCall(k, Split(text), Split(modifiedContent(text, breakpoints))).result

\* C13: a step that changes the editor text or the breakpoint set leaves
\* realFileSplit and debugFileSplit, and so the line resolved for every k,
\* unchanged; and a HighlightLine run is resolved against those two slices.
C13_SessionSnapshot ==
    [][/\ (text' # text \/ breakpoints' # breakpoints) =>
             /\ realFileSplit' = realFileSplit
             /\ debugFileSplit' = debugFileSplit
             /\ \A k \in Probes :
                   HighlightLineCall(k, realFileSplit', debugFileSplit').result
                      = HighlightLineCall(k, realFileSplit, debugFileSplit).result
       /\ Resolved' =>
             lastCall'[1] = HighlightLineCall(lastCall'[1].lineNum,
                                              realFileSplit', debugFileSplit')]_vars

\* C13 witness: in a session the text or the breakpoints were changed after
\* the capture, and the line resolved for the last k is the snapshot's, not
\* the one the present text and breakpoints would give.
C13_Witness ==
    /\ Session
    /\ Resolved
    /\ realFileSplit # Split(text) \/ debugFileSplit # Split(modifiedContent(text, breakpoints))
    /\ lastCall[1].result # ResolvedNow(lastCall[1].lineNum)

\* C14: a debugCode that fails (directory, temporary file, Assemble or
\* LoadFile) returns with no session: isDebugging false and cpu nil, whether or
\* not a session was active at the call.
C14_FailedStartLeavesNoSession ==
    currentFilePath # "" =>
        \A outcome \in Failures :
            LET after == debugCodeOn(globals, text, breakpoints, outcome, 0) IN
            ~after.isDebugging /\ after.cpu = Nil

\* C14 witness: debugCode, called in a session, stopped it and then failed at
\* the temporary file or in Assemble, after it had written the slices.
C14_Witness ==
    /\ Stopped
    /\ realFileSplit # Nil
    /\ debugFileSplit # Nil

\* this step is a hotReloadCode, called in a session, that failed
HotReloadFails ==
    /\ isDebugging /\ cpu # Nil /\ debugToolbarVisible
    /\ \E outcome \in Failures : globals' = hotReloadCodeOn(globals, text, breakpoints, outcome)

\* C15: a failed hotReloadCode leaves the CPU (memory and PC) and the two
\* snapshots as they were before the call.
C15_FailedHotReloadKeepsState ==
    [][HotReloadFails =>
          /\ cpu' = cpu
          /\ realFileSplit' = realFileSplit
          /\ debugFileSplit' = debugFileSplit]_vars

\* ----------------------------------------------------------------------
\* The Continue goroutine against the UI thread
\* ----------------------------------------------------------------------

\* debugLines is the instrumentation of realLines under some breakpoint set
OneInstrumentation(realLines, debugLines) ==
    \E bps \in BreakpointMaps(Join(realLines)) :
        debugLines = Split(modifiedContent(Join(realLines), bps))

\* C16: every HighlightLine run of a Continue goroutine has read a
\* realFileSplit and a debugFileSplit that are not nil and that are the two
\* halves of one instrumentation.
C16_SnapshotPairRead ==
    \A w \in 1..MaxWorkers :
        workers[w].reads # Nil =>
            LET reads == workers[w].reads[1] IN
            /\ reads.realLines # Nil
            /\ reads.debugLines # Nil
            /\ OneInstrumentation(reads.realLines, reads.debugLines)

\* ----------------------------------------------------------------------
\* Breakpoints and the document
\* ----------------------------------------------------------------------

\* C17: every member of the breakpoint set is a line index of the present
\* document: 0 <= i < number of lines.
C17_BreakpointsInRange ==
    \A i \in DOMAIN breakpoints : 0 <= i /\ i < Len(Split(text))

\* ----------------------------------------------------------------------
\* The scanner's trap counter and the stepping index
\* ----------------------------------------------------------------------

\* the ebreak lines among the first j lines of a slice
TrapLinesBefore(lines, j) ==
    Cardinality({m \in Indices(lines) : m < j /\ LineFacts[lines[m + 1]].ebreak})

\* the scan stopped on an ebreak line
StoppedOnTrap(lines, scan) == scan[1] >= 0 /\ LineFacts[lines[scan[1] + 1]].ebreak

\* the count is that of the ebreak lines at or before the returned line
CountsThroughHit(lines, scan) ==
    scan[1] >= 0 => scan[2] = TrapLinesBefore(lines, scan[1] + 1)

\* the count is that of the ebreak lines before the returned line, and of all
\* ebreak lines when no line is returned
CountsBeforeHit(lines, scan) ==
    scan[2] = TrapLinesBefore(lines, IF scan[1] >= 0 THEN scan[1] ELSE Len(lines))

\* C18 as stated: getRelevantLine's second value counts the ebreak lines at or
\* before the returned line, the k-th instruction's own ebreak included.
C18_TrapCounterInclusive ==
    Resolved =>
        /\ CountsThroughHit(realFileSplit, lastCall[1].realScan)
        /\ CountsThroughHit(debugFileSplit, lastCall[1].debugScan)

\* C18 amended: the second value counts the ebreak lines strictly before the
\* returned line (all of them when -1 is returned); an ebreak that is itself
\* the k-th instruction is not counted.
C18_TrapCounterExclusive ==
    Resolved =>
        /\ CountsBeforeHit(realFileSplit, lastCall[1].realScan)
        /\ CountsBeforeHit(debugFileSplit, lastCall[1].debugScan)

\* C18 witness: the k-th instruction of the instrumented document is an ebreak
\* and another ebreak lies before it.
C18_Witness ==
    /\ Resolved
    /\ StoppedOnTrap(debugFileSplit, lastCall[1].debugScan)
    /\ lastCall[1].debugScan[2] >= 1

\* the 1-based index of the instruction at address pc, as debugCode counts it
\* for its first highlight
InstructionAt(pc) == (pc \div 4) + 1

\* the document is straight-line code: every line is one real instruction
StraightLine(lines) ==
    \A j \in Indices(lines) :
        /\ InstructionBearing(lines[j + 1])
        /\ Expansion(lines[j + 1]) = 1
        /\ ~LineFacts[lines[j + 1]].ebreak

\* this step is a stepDebugCode that ran one instruction of straight-line code
\* without breakpoints and moved the PC to the next instruction of the program
StepsToNext ==
    /\ Session /\ cpu # Nil
    /\ breakpoints = <<>>
    /\ StraightLine(realFileSplit)
    /\ cpu[1].PC % 4 = 0
    /\ InstructionAt(cpu[1].PC + 4) <= TotalInstructions(realFileSplit)
    /\ globals' = stepDebugCodeOn(globals, "RUNNING", cpu[1].PC + 4)

\* C19: after such a step the index passed to HighlightLine designates the
\* instruction at the new PC, the one to execute next, as debugCode's first
\* highlight does, and that instruction's line is the current debug line.
C19_StepHighlightsNext ==
    [][StepsToNext =>
          /\ lastCall'[1].lineNum = InstructionAt(cpu'[1].PC)
          /\ currentHighline' = cpu'[1].PC \div 4]_vars

\* ----------------------------------------------------------------------
\* Restart
\* ----------------------------------------------------------------------

\* C20: a successful debugCode called in a session gives what it gives when
\* called after that session was stopped (nothing of the old session is left);
\* afterwards isDebugging is true, cpu is a new CPU (registers as reset) holding
\* the newly assembled program, and the two slices are the split of the editor
\* text and of its instrumentation under the breakpoints.
C20_CleanRestart ==
    (isDebugging /\ cpu # Nil /\ currentFilePath # "") =>
        \A entryPC \in PCValues :
            LET after == debugCodeOn(globals, text, breakpoints, "ok", entryPC) IN
            /\ after = debugCodeOn(stopDebuggingOn(globals), text, breakpoints, "ok", entryPC)
            /\ after.isDebugging
            /\ after.cpu = <<[PC        |-> entryPC,
                              Memory    |-> modifiedContent(text, breakpoints),
                              Registers |-> "reset"]>>
            /\ after.realFileSplit = Split(text)
            /\ after.debugFileSplit = Split(modifiedContent(text, breakpoints))

\* C20 witness: Debug can be pressed in a session whose CPU has executed and
\* whose snapshot is no longer that of the present text and breakpoints.
C20_Witness ==
    /\ Session /\ cpu # Nil
    /\ currentFilePath # ""
    /\ cpu[1].Registers = "used"
    /\ realFileSplit # Split(text)
    /\ debugFileSplit # Split(modifiedContent(text, breakpoints))

\* the line a gutter click at height y toggles
ClickedLine(y) == BlockAtPosition(text, y) - 1

\* C21: a gutter click on line L adds L to the breakpoint set if absent and
\* removes it if present, leaves every other line's membership unchanged, and
\* a second click on L restores the set; the map holds no key with value false,
\* so a block has a marker exactly when its line is a key of the map.
C21_BreakpointToggle ==
    /\ \A i \in DOMAIN breakpoints : breakpoints[i]
    /\ \A blockNumber \in Indices(Split(text)) :
          breakpointMarker(blockNumber) <=> blockNumber \in DOMAIN breakpoints
    /\ \A y \in 0..GutterHeight :
          LET L     == ClickedLine(y)
              after == toggle(breakpoints, L)
          IN /\ L \in DOMAIN after <=> L \notin DOMAIN breakpoints
             /\ \A other \in (DOMAIN breakpoints \cup DOMAIN after) \ {L} :
                   other \in DOMAIN after <=> other \in DOMAIN breakpoints
             /\ toggle(after, L) = breakpoints

\* C21 witness: a click has put a marker on a line of the document, and the
\* next click on that line will take it away.
C21_Witness ==
    \E y \in 0..GutterHeight :
        /\ ClickedLine(y) \in Indices(Split(text))
        /\ breakpointMarker(ClickedLine(y))

\* ------------------------------------------------------------ recent files
NoDuplicates(list) == \A i, j \in DOMAIN list : list[i] = list[j] => i = j

Others(list, p) == SelectSeq(list, LAMBDA e : e # p)

IsPrefix(a, b) == Len(a) <= Len(b) /\ a = SubSeq(b, 1, Len(a))

Occurrences(list, p) == Cardinality({i \in DOMAIN list : list[i] = p})

\* the paths a call may be given: the ones the user picks and the list's own
CallPaths == PickedPaths \cup {RecentFiles[i] : i \in DOMAIN RecentFiles}

C23_RecentFilesBound ==
    currentFilePath # "" => Len(RecentFiles) <= MaxRecentFiles

\* ------------------------------------------- goroutines and their sessions
\* C24: no step of a Continue goroutine calls ExecuteSingle on, or reads the
\* PC of, a nil debugInfo.cpu, however the goroutine's steps interleave with
\* the handlers of the UI thread and with other goroutines.
C24_ContinueNeverOnNilCPU ==
    [][\A w \in 1..MaxWorkers :
          (workerExecuteSingle(w) \/ workerEbreak(w)) => cpu # Nil]_vars

\* the goroutines inside ExecuteSingle on the CPU debugInfo.cpu points to
ExecutingOnCPU == {w \in 1..MaxWorkers : workers[w].pc = "executing" /\ ~workers[w].stale}

\* the Step handler gets past its guard and calls ExecuteSingle
StepExecutes == stepDebugCode /\ isDebugging /\ cpu # Nil

\* C25: at most one thread of control is inside ExecuteSingle on the session's
\* CPU: no two goroutines are, and the UI thread's Step does not call it
\* while a goroutine is.
C25_SingleExecutor ==
    [][/\ Cardinality(ExecutingOnCPU) <= 1
       /\ StepExecutes => ExecutingOnCPU = {}]_vars

\* C26: a goroutine whose session has been stopped does not call
\* ExecuteSingle on a CPU again, neither on a later session's.
C26_WorkersEndWithSession ==
    [][\A w \in 1..MaxWorkers :
          (workerExecuteSingle(w) /\ cpu # Nil) => ~workers[w].stopped]_vars

\* ------------------------------------------------------ step and hot reload
\* C27: stepDebugCode changes nothing when no session is active; in an active
\* session it executes one instruction, and it leaves the session stopped
\* (isDebugging false, cpu nil, currentHighline -1, both snapshots nil) exactly
\* when the engine answered PROGRAM_EXIT or PROGRAM_EXIT_FAILURE; for every
\* other answer the session is active on the same CPU, one instruction further.
C27_StepOutcome ==
    \A state \in ExecStates, newPC \in PCValues :
        LET after == stepDebugCodeOn(globals, state, newPC)
            exits == state \in {"PROGRAM_EXIT", "PROGRAM_EXIT_FAILURE"}
            stopped == /\ ~after.isDebugging
                       /\ after.cpu = Nil
                       /\ after.currentHighline = -1
                       /\ after.debugFileSplit = Nil
                       /\ after.realFileSplit = Nil
        IN IF ~isDebugging \/ cpu = Nil
           THEN after = globals
           ELSE /\ stopped <=> exits
                /\ ~exits => /\ after.isDebugging
                             /\ after.cpu = <<ExecuteSingle(cpu[1], newPC)>>

\* C27 witness: a Step has executed an instruction and the session is active.
C27_Witness == isDebugging /\ cpu # Nil /\ cpu[1].Registers = "used"

\* C28: a hotReloadCode that succeeds in a session leaves cpu.PC and
\* isDebugging as they were, the CPU's memory holding the program assembled
\* from the current text and breakpoints, and realFileSplit and debugFileSplit
\* split from the current text and from that instrumented text.
C28_HotReloadKeepsPC ==
    cpu # Nil =>
        LET after == hotReloadCodeOn(globals, text, breakpoints, "ok") IN
        /\ after.cpu # Nil
        /\ after.cpu[1].PC = cpu[1].PC
        /\ after.isDebugging = isDebugging
        /\ after.cpu[1].Memory = modifiedContent(text, breakpoints)
        /\ after.cpu[1].Registers = cpu[1].Registers
        /\ after.realFileSplit = Split(text)
        /\ after.debugFileSplit = Split(modifiedContent(text, breakpoints))

\* C28 witness: a session that has stepped away from PC 0 is in the state a
\* successful hot reload leaves: memory, executable and snapshots are those of
\* the current text and breakpoints, and no HighlightLine has run since.
C28_Witness ==
    /\ isDebugging /\ cpu # Nil /\ lastCall = Nil
    /\ cpu[1].Registers = "used" /\ cpu[1].PC # 0
    /\ cpu[1].Memory = modifiedContent(text, breakpoints)
    /\ cpu[1].Memory # NewMemory
    /\ outputExe = cpu[1].Memory
    /\ debugFileSplit = Split(cpu[1].Memory)
    /\ realFileSplit = Split(text)

\* ------------------------------------------------------------ terminal I/O
\* C29: the UI thread is never inside the key handler's send on updateCh with
\* the channel full. In that state the send cannot complete: the only receive
\* on updateCh is in the timer callback, which the event loop of the same
\* thread dispatches only after the key handler has returned.
C29_KeySendCompletes ==
    ~(terminal.ui = "send" /\ terminal.updateCh = UpdateChCapacity)

====
